---- MODULE Spec2Model ----
(***************************************************************************)
(* A model of wordy_srs (src/src/knowledge.rs, src/src/main.rs): the SM-2  *)
(* scheduler step, the sentence splitter, the sqlite store with its three  *)
(* tables (words, sentences, word_sentence) and the handlers of Knowledge. *)
(*                                                                         *)
(* Units.  Instants and durations are whole seconds of local time (the     *)
(* SQL compares datetime(..) values, which have one-second resolution);    *)
(* instant 0 is a local midnight.  response_quality is in tenths (30 is    *)
(* 3.0) and e_factor in ten-thousandths (25000 is 2.5): with qualities     *)
(* that are multiples of 0.1 the SM-2 polynomial is exact in these units.  *)
(*                                                                         *)
(* Characters are ASCII stand-ins for the source's:  "." is the ideographic*)
(* full stop, "!" and "?" the full-width marks, "\n" the newline, "[" "]"  *)
(* the corner brackets, "{" "}" the white corner brackets, "(" ")" the     *)
(* full-width parentheses, " " white space; letters are word characters.   *)
(***************************************************************************)
EXTENDS Integers, Sequences, FiniteSets, TLC

VARIABLES
    sm,             \* scheduler harness: the current SuperMemoItem
    smPrev,         \* scheduler harness: the item the last step was applied to
    smQ,            \* scheduler harness: the quality of the last step (-1: none yet)
    smN,            \* scheduler harness: number of steps applied
    smGood,         \* scheduler harness: every quality so far was >= 3.0
    words,          \* table words: sequence of rows, id = index
    sentences,      \* table sentences: sequence of rows, id = index
    word_sentence,  \* table word_sentence: set of <<word_id, sentence_id>>
    now,            \* the local clock (Local::now()), in seconds
    req,            \* per request task: the handler's position and locals
    ret             \* the last value a handler returned

smVars == <<sm, smPrev, smQ, smN, smGood>>
dbVars == <<words, sentences, word_sentence>>
vars == <<sm, smPrev, smQ, smN, smGood, words, sentences, word_sentence, now, req, ret>>

----------------------------------------------------------------------------
(* Units and program constants *)

Minute == 60
Hour == 3600
Day == 86400
TenMinutes == 10 * Minute
Q3 == 30
Q5 == 50
EUnit == 10000
EFloor == 13000
EDefault == 25000
day_end_hour == 4

----------------------------------------------------------------------------
(* Bounds *)

MaxSteps == 11
MaxInterval == 20000000
Qualities == {0, 29, 30, 49, 50}
VeteranReviews == 10
\* the instants at which the clock is read, as offsets from the first one,
\* which is 02:30:00 local time
ClockOffsets == {0, Hour, 2 * Hour}
ReviewQualities == {0, 30}
Sources == {"book"}
Tasks == {"t1", "t2"}
Texts ==
    { << "a", ".", "b", "." >>,
      << "A", "a", "b", ".", "\n" >> }

----------------------------------------------------------------------------
(* The SM-2 step *)

Max(a, b) == IF a >= b THEN a ELSE b

SuperMemoItem(r, d, e) == [repitition |-> r, duration |-> d, e_factor |-> e]

SuperMemoItemDefault == SuperMemoItem(0, 0, EDefault)

\* duration.num_seconds() as f64 * multiplier, cast back to whole seconds
\* (truncation); split so that no intermediate product leaves 32 bits.
mul_duration(duration, multiplier) ==
    (duration \div EUnit) * multiplier + ((duration % EUnit) * multiplier) \div EUnit

\* 0.1 - (5 - q) * (0.08 + (5 - q) * 0.02), in ten-thousandths
EFactorDelta(response_quality) ==
    LET d == Q5 - response_quality
    IN  1000 - d * (80 + d * 2)

\* mutant: a lapse (quality < 3.0) keeps the stored repetition counter
super_memo_2_no_lapse(item, response_quality) ==
    LET repitition == item.repitition
    IN  IF repitition = 0
        THEN SuperMemoItem(1, TenMinutes, item.e_factor)
        ELSE IF repitition = 1
        THEN SuperMemoItem(2, Day, item.e_factor)
        ELSE LET e_factor == Max(item.e_factor + EFactorDelta(response_quality), EFloor)
             IN  SuperMemoItem(repitition + 1, mul_duration(item.duration, e_factor), e_factor)

\* mutant: the interval is scaled by the old e_factor instead of the new one
super_memo_2_old_factor(item, response_quality) ==
    LET repitition == IF response_quality < Q3 THEN 0 ELSE item.repitition
    IN  IF repitition = 0
        THEN SuperMemoItem(1, TenMinutes, item.e_factor)
        ELSE IF repitition = 1
        THEN SuperMemoItem(2, Day, item.e_factor)
        ELSE LET e_factor == Max(item.e_factor + EFactorDelta(response_quality), EFloor)
             IN  SuperMemoItem(repitition + 1, mul_duration(item.duration, item.e_factor), e_factor)

\* mutant: the comparison of the quality with 3.0 is inverted
super_memo_2_inverted(item, response_quality) ==
    LET repitition == IF response_quality >= Q3 THEN 0 ELSE item.repitition
    IN  IF repitition = 0
        THEN SuperMemoItem(1, TenMinutes, item.e_factor)
        ELSE IF repitition = 1
        THEN SuperMemoItem(2, Day, item.e_factor)
        ELSE LET e_factor == Max(item.e_factor + EFactorDelta(response_quality), EFloor)
             IN  SuperMemoItem(repitition + 1, mul_duration(item.duration, e_factor), e_factor)

\* mutant: the e_factor is not held at the floor of 1.3
super_memo_2_no_floor(item, response_quality) ==
    LET repitition == IF response_quality < Q3 THEN 0 ELSE item.repitition
    IN  IF repitition = 0
        THEN SuperMemoItem(1, TenMinutes, item.e_factor)
        ELSE IF repitition = 1
        THEN SuperMemoItem(2, Day, item.e_factor)
        ELSE LET e_factor == item.e_factor + EFactorDelta(response_quality)
             IN  SuperMemoItem(repitition + 1, mul_duration(item.duration, e_factor), e_factor)

\* mutant: a lapse (quality < 3.0) resets the interval but not the counter
super_memo_2_lapse_interval_only(item, response_quality) ==
    IF response_quality < Q3
    THEN SuperMemoItem(Max(item.repitition, 1), TenMinutes, item.e_factor)
    ELSE IF item.repitition = 0
    THEN SuperMemoItem(1, TenMinutes, item.e_factor)
    ELSE IF item.repitition = 1
    THEN SuperMemoItem(2, Day, item.e_factor)
    ELSE LET e_factor == Max(item.e_factor + EFactorDelta(response_quality), EFloor)
         IN  SuperMemoItem(item.repitition + 1, mul_duration(item.duration, e_factor), e_factor)

super_memo_2(item, response_quality) ==
    LET repitition == IF response_quality < Q3 THEN 0 ELSE item.repitition
    IN  IF repitition = 0
        THEN SuperMemoItem(1, TenMinutes, item.e_factor)
        ELSE IF repitition = 1
        THEN SuperMemoItem(2, Day, item.e_factor)
        ELSE LET e_factor == Max(item.e_factor + EFactorDelta(response_quality), EFloor)
             IN  SuperMemoItem(repitition + 1, mul_duration(item.duration, e_factor), e_factor)

----------------------------------------------------------------------------
(* Sentence splitting *)

terminators == {".", "\n", "!", "?"}
open_quotes == {"[", "{", "("}
close_quotes == {"]", "}", ")"}
WhiteSpace == {" ", "\n"}

RECURSIVE TrimStart(_)
TrimStart(s) ==
    IF s # << >> /\ Head(s) \in WhiteSpace THEN TrimStart(Tail(s)) ELSE s

RECURSIVE TrimEnd(_)
TrimEnd(s) ==
    IF s # << >> /\ s[Len(s)] \in WhiteSpace
    THEN TrimEnd(SubSeq(s, 1, Len(s) - 1))
    ELSE s

\* str::trim
trim(s) == TrimEnd(TrimStart(s))

\* the loop of iterate_sentences from character i on
RECURSIVE IterateFrom(_, _, _, _, _)
IterateFrom(text, i, depth, curr_string, found) ==
    IF i > Len(text)
    THEN found
    ELSE LET c == text[i]
             pushed == Append(curr_string, c)
         IN  IF c \in open_quotes
             THEN IterateFrom(text, i + 1, depth + 1, pushed, found)
             ELSE IF c \in close_quotes
             THEN IterateFrom(text, i + 1, depth - 1, pushed, found)
             ELSE IF depth = 0 /\ c \in terminators
             THEN LET sentence == trim(pushed)
                  IN  IterateFrom(text, i + 1, depth, << >>,
                                  IF sentence # << >> THEN Append(found, sentence) ELSE found)
             ELSE IterateFrom(text, i + 1, depth, pushed, found)

iterate_sentences(text) == IterateFrom(text, 1, 0, << >>, << >>)

----------------------------------------------------------------------------
(* Tokenizing with jumanpp *)

\* How a run of the analyzer ends: exit status 0, a non-zero exit status,
\* or wait_with_output failing.
JumanppOutcomes == {"ok", "exit_failure", "wait_failure"}

SpaceForm == "\\_"

\* the dictionary form of a character: "A" stands for an inflected form of "a"
DictionaryForm(c) == IF c = "A" THEN "a" ELSE IF c = " " THEN SpaceForm ELSE c

\* The analyzer's output for a sentence, one record per line: a line of 12
\* fields per character, an alias line ("@ ...") after every "b", and the
\* closing EOS line, which has a single field.
RECURSIVE JumanppLines(_)
JumanppLines(sentence) ==
    IF sentence = << >>
    THEN << [alias |-> FALSE, fields |-> 1, form |-> "EOS"] >>
    ELSE LET c == Head(sentence)
             line == [alias |-> FALSE, fields |-> 12, form |-> DictionaryForm(c)]
             also == IF c = "b"
                     THEN << [alias |-> TRUE, fields |-> 12, form |-> "B"] >>
                     ELSE << >>
         IN  <<line>> \o also \o JumanppLines(Tail(sentence))

RECURSIVE ParseLines(_)
ParseLines(lines) ==
    IF lines = << >>
    THEN << >>
    ELSE LET line == Head(lines)
         IN  IF line.alias
             THEN ParseLines(Tail(lines))
             ELSE IF line.fields >= 12 /\ line.form # SpaceForm
             THEN <<line.form>> \o ParseLines(Tail(lines))
             ELSE ParseLines(Tail(lines))

\* The Ok value of tokenize_sentence_jumanpp when wait_with_output succeeds:
\* the parsed words on exit status 0, no words otherwise.
tokenize_sentence_jumanpp(sentence, outcome) ==
    IF outcome = "ok" THEN ParseLines(JumanppLines(sentence)) ELSE << >>

----------------------------------------------------------------------------
(* The store *)

\* SQL NULL in a datetime column
NULL == -1

\* a < b on datetime columns: a comparison with NULL is not true
Before(a, b) == a # NULL /\ a < b

WordFrequencyList == << ".", "a" >>

get_word_freq(word) ==
    IF \E i \in 1..Len(WordFrequencyList) : WordFrequencyList[i] = word
    THEN (CHOOSE i \in 1..Len(WordFrequencyList) : WordFrequencyList[i] = word) - 1
    ELSE Len(WordFrequencyList)

\* the columns of words an INSERT leaves to their defaults
WordsDefaults ==
    [reviewed |-> FALSE, repitition |-> 0, e_factor |-> EDefault,
     review_duration |-> 0, next_review_at |-> NULL, date_first_reviewed |-> NULL]

WordRow(text, count, frequency, d) ==
    [text |-> text, count |-> count, frequency |-> frequency,
     reviewed |-> d.reviewed, repitition |-> d.repitition, e_factor |-> d.e_factor,
     review_duration |-> d.review_duration, next_review_at |-> d.next_review_at,
     date_first_reviewed |-> d.date_first_reviewed]

EmptyDb == [words |-> << >>, sentences |-> << >>, word_sentence |-> {}]

HasWord(ws, text) == \E i \in 1..Len(ws) : ws[i].text = text
WordId(ws, text) == CHOOSE i \in 1..Len(ws) : ws[i].text = text
HasSentence(ss, text) == \E i \in 1..Len(ss) : ss[i].text = text

\* mutant: a plain INSERT, without the ON CONFLICT clause or the index
UpsertWord_insert_only(ws, word) ==
    Append(ws, WordRow(word, 1, get_word_freq(word), WordsDefaults))

\* INSERT INTO words .. ON CONFLICT(text) DO UPDATE SET count = count + 1
UpsertWord(ws, word) ==
    IF HasWord(ws, word)
    THEN [ws EXCEPT ![WordId(ws, word)].count = @ + 1]
    ELSE Append(ws, WordRow(word, 1, get_word_freq(word), WordsDefaults))

\* mutant: a word that occurs again in the sentence is not counted again
RECURSIVE add_words_to_sentence_once(_, _, _)
add_words_to_sentence_once(db, id, tokens) ==
    IF tokens = << >>
    THEN db
    ELSE LET word == Head(tokens)
             seen == /\ HasWord(db.words, word)
                     /\ <<WordId(db.words, word), id>> \in db.word_sentence
             ws == IF seen THEN db.words ELSE UpsertWord(db.words, word)
             word_id == WordId(ws, word)
         IN  add_words_to_sentence_once(
                 [db EXCEPT !.words = ws,
                            !.word_sentence = @ \cup {<<word_id, id>>}],
                 id, Tail(tokens))

RECURSIVE add_words_to_sentence(_, _, _)
add_words_to_sentence(db, id, tokens) ==
    IF tokens = << >>
    THEN db
    ELSE LET word == Head(tokens)
             ws == UpsertWord(db.words, word)
             word_id == WordId(ws, word)
         IN  add_words_to_sentence(
                 [db EXCEPT !.words = ws,
                            !.word_sentence = @ \cup {<<word_id, id>>}],
                 id, Tail(tokens))

\* How the store answers the statements of one sentence's transaction: the
\* INSERT of the sentence fails (with an error other than the conflict on
\* its text), or the first statement of add_words_to_sentence fails.
StoreFailures == {"insert_failure", "upsert_failure"}

\* mutant: the words are processed again when the sentence was there already
add_sentence_words_again(db, sentence, source, outcome) ==
    IF outcome \in {"wait_failure", "insert_failure", "upsert_failure"}
    THEN db
    ELSE IF HasSentence(db.sentences, sentence)
    THEN add_words_to_sentence(db,
             CHOOSE i \in 1..Len(db.sentences) : db.sentences[i].text = sentence,
             tokenize_sentence_jumanpp(sentence, outcome))
    ELSE add_words_to_sentence(
             [db EXCEPT !.sentences = Append(@, [text |-> sentence, source |-> source])],
             Len(db.sentences) + 1, tokenize_sentence_jumanpp(sentence, outcome))

\* What add_sentence leaves committed.  A failing wait panics before the
\* transaction is begun; an INSERT that fails, like one that is ignored,
\* yields no id (Err(e) => None), so the words are skipped and the empty
\* transaction is committed; an error of add_words_to_sentence returns
\* before the commit and the dropped transaction is rolled back.
add_sentence(db, sentence, source, outcome) ==
    IF outcome \in {"wait_failure", "insert_failure", "upsert_failure"}
    THEN db
    ELSE IF HasSentence(db.sentences, sentence)
    THEN db
    ELSE add_words_to_sentence(
             [db EXCEPT !.sentences = Append(@, [text |-> sentence, source |-> source])],
             Len(db.sentences) + 1, tokenize_sentence_jumanpp(sentence, outcome))

\* How add_sentence ends: a panic, the error add_words_to_sentence returned
\* (it runs only for a sentence that was not there), or Ok(())
add_sentence_result(db, sentence, outcome) ==
    IF outcome = "wait_failure"
    THEN "panic"
    ELSE IF outcome = "upsert_failure" /\ ~HasSentence(db.sentences, sentence)
    THEN "DatabaseError"
    ELSE "Ok"

\* The loop of add_text from sentence i on; outcomes[i] is how the analyzer
\* and the store behave on sentence i.  The loop stops at the first sentence
\* that does not end in Ok(()), and the sentences before it stay committed.
RECURSIVE AddSentencesFrom(_, _, _, _, _)
AddSentencesFrom(db, split, source, outcomes, i) ==
    IF i > Len(split)
    THEN [db |-> db, result |-> "Ok"]
    ELSE IF add_sentence_result(db, split[i], outcomes[i]) # "Ok"
    THEN [db |-> add_sentence(db, split[i], source, outcomes[i]),
          result |-> add_sentence_result(db, split[i], outcomes[i])]
    ELSE AddSentencesFrom(add_sentence(db, split[i], source, outcomes[i]),
                          split, source, outcomes, i + 1)

add_text(db, text, source, outcomes) ==
    LET split == iterate_sentences(text)
        done == AddSentencesFrom(db, split, source, outcomes, 1)
    IN  [db |-> done.db,
         ret |-> IF done.result = "Ok"
                 THEN [op |-> "add_text", result |-> "Ok", sentences_added |-> Len(split)]
                 ELSE [op |-> "add_text", result |-> done.result]]

\* The loop of retokenize from sentence i on, inside its transaction.  The
\* result of add_words_to_sentence is not looked at: when its first
\* statement fails the sentence gets no word and the loop goes on.
RECURSIVE RetokenizeFrom(_, _, _)
RetokenizeFrom(db, outcomes, i) ==
    IF i > Len(db.sentences)
    THEN [db |-> db, result |-> "Ok"]
    ELSE IF outcomes[i] = "wait_failure"
    THEN [db |-> db, result |-> "panic"]
    ELSE IF outcomes[i] = "upsert_failure"
    THEN RetokenizeFrom(db, outcomes, i + 1)
    ELSE RetokenizeFrom(
             add_words_to_sentence(db, i,
                 tokenize_sentence_jumanpp(db.sentences[i].text, outcomes[i])),
             outcomes, i + 1)

\* mutant: the counts are not reset before the sentences are gone through
retokenize_keep_counts(db, outcomes) ==
    LET cleared == [db EXCEPT !.word_sentence = {}]
        done == RetokenizeFrom(cleared, outcomes, 1)
    IN  IF done.result = "Ok"
        THEN [db |-> done.db, ret |-> [op |-> "retokenize", result |-> "Ok"]]
        ELSE [db |-> db, ret |-> [op |-> "retokenize", result |-> "panic"]]

\* retokenize: the panic unwinds through the open transaction, which is
\* rolled back
retokenize(db, outcomes) ==
    LET cleared == [db EXCEPT !.word_sentence = {},
                              !.words = [i \in 1..Len(db.words) |->
                                            [db.words[i] EXCEPT !.count = 0]]]
        done == RetokenizeFrom(cleared, outcomes, 1)
    IN  IF done.result = "Ok"
        THEN [db |-> done.db, ret |-> [op |-> "retokenize", result |-> "Ok"]]
        ELSE [db |-> db, ret |-> [op |-> "retokenize", result |-> "panic"]]

----------------------------------------------------------------------------
(* The day boundary and the review queries *)

hour(t) == (t % Day) \div Hour

\* DateTime::with_hour: the hour replaced, minute and second kept
with_hour(t, h) == t - hour(t) * Hour + h * Hour

get_end_of_day_time(now_time) ==
    IF hour(now_time) < day_end_hour
    THEN with_hour(now_time, day_end_hour)
    ELSE with_hour(now_time + Day, day_end_hour)

\* mutant: the interval condition of the day window is left out of the count
NeedsReviewing_any_interval(w, end_of_day_time, now_time) ==
    \/ /\ w.reviewed = TRUE
       /\ Before(w.next_review_at, end_of_day_time)
    \/ Before(w.next_review_at, now_time)

\* WHERE of get_review_info and of get_words_in_sentence_that_need_reviewing
NeedsReviewing(w, end_of_day_time, now_time) ==
    \/ /\ w.reviewed = TRUE
       /\ Before(w.next_review_at, end_of_day_time)
       /\ w.review_duration >= Day
    \/ Before(w.next_review_at, now_time)

\* the CASE summed as words_that_need_reviewing by the first selection query
SumNeedsReviewing(w, end_of_day_time, now_time) ==
    \/ /\ Before(w.next_review_at, end_of_day_time)
       /\ w.review_duration >= Day
    \/ Before(w.next_review_at, now_time)

\* mutant: the interval condition of the day window is left out
ReviewSelectable_any_interval(w, end_of_day_time, now_time) ==
    \/ Before(w.next_review_at, end_of_day_time)
    \/ Before(w.next_review_at, now_time)
    \/ w.reviewed = FALSE

\* mutant: the day window takes in a word whose next_review_at is the boundary
ReviewSelectable_at_boundary(w, end_of_day_time, now_time) ==
    \/ /\ w.next_review_at # NULL
       /\ w.next_review_at <= end_of_day_time
       /\ w.review_duration >= Day
    \/ Before(w.next_review_at, now_time)
    \/ w.reviewed = FALSE

\* WHERE of review_word's SELECT, for the row of the word
ReviewSelectable(w, end_of_day_time, now_time) ==
    \/ /\ Before(w.next_review_at, end_of_day_time)
       /\ w.review_duration >= Day
    \/ Before(w.next_review_at, now_time)
    \/ w.reviewed = FALSE

get_review_info(db, t) ==
    LET end_of_day_time == get_end_of_day_time(t)
    IN  [op |-> "get_review_info", result |-> "Ok",
         reviews_remaining |->
            Cardinality({i \in 1..Len(db.words) :
                            NeedsReviewing(db.words[i], end_of_day_time, t)})]

----------------------------------------------------------------------------
(* Reviewing *)

\* review_word's SELECT finds the row
ReviewSelect(ws, review_word_id, end_of_day_time, now_time) ==
    /\ review_word_id \in 1..Len(ws)
    /\ ReviewSelectable(ws[review_word_id], end_of_day_time, now_time)

\* the SuperMemoItem review_word builds from the selected row
ReviewItem(row) ==
    IF ~row.reviewed
    THEN SuperMemoItemDefault
    ELSE SuperMemoItem(row.repitition, row.review_duration, row.e_factor)

\* mutant: date_first_reviewed is overwritten by every review
ReviewUpdate_first_reviewed(ws, review_word_id, item, next_review_at, now_time) ==
    IF review_word_id \in 1..Len(ws)
    THEN [ws EXCEPT ![review_word_id] =
            [@ EXCEPT !.repitition = item.repitition,
                      !.e_factor = item.e_factor,
                      !.review_duration = item.duration,
                      !.next_review_at = next_review_at,
                      !.reviewed = TRUE,
                      !.date_first_reviewed = now_time]]
    ELSE ws

\* review_word's UPDATE
ReviewUpdate(ws, review_word_id, item, next_review_at, now_time) ==
    IF review_word_id \in 1..Len(ws)
    THEN [ws EXCEPT ![review_word_id] =
            [@ EXCEPT !.repitition = item.repitition,
                      !.e_factor = item.e_factor,
                      !.review_duration = item.duration,
                      !.next_review_at = next_review_at,
                      !.reviewed = TRUE,
                      !.date_first_reviewed = IF @ = NULL THEN now_time ELSE @]]
    ELSE ws

\* mutant: next_review_at is the time of the review, not that plus the interval
review_word_due_at_once(ws, review_word_id, response_quality, t) ==
    IF ReviewSelect(ws, review_word_id, get_end_of_day_time(t), t)
    THEN LET item == super_memo_2(ReviewItem(ws[review_word_id]), response_quality)
         IN  ReviewUpdate(ws, review_word_id, item, t, t)
    ELSE ws

\* review_word run to its end with the clock reading t throughout
review_word(ws, review_word_id, response_quality, t) ==
    IF ReviewSelect(ws, review_word_id, get_end_of_day_time(t), t)
    THEN LET item == super_memo_2(ReviewItem(ws[review_word_id]), response_quality)
         IN  ReviewUpdate(ws, review_word_id, item, t + item.duration, t)
    ELSE ws

\* mutant: the WHERE sentence_id = ? is left out of the join
get_words_in_sentence_all(db, sentence_id) ==
    {w \in 1..Len(db.words) : \E sid \in 1..Len(db.sentences) : <<w, sid>> \in db.word_sentence}

get_words_in_sentence(db, sentence_id) ==
    {w \in 1..Len(db.words) : <<w, sentence_id>> \in db.word_sentence}

Least(S) == CHOOSE x \in S : \A y \in S : x <= y

RECURSIVE ReviewWords(_, _, _, _)
ReviewWords(ws, ids, response_quality, t) ==
    IF ids = {}
    THEN ws
    ELSE ReviewWords(review_word(ws, Least(ids), response_quality, t),
                     ids \ {Least(ids)}, response_quality, t)

review_sentence(db, sentence_id, response_quality, t) ==
    ReviewWords(db.words, get_words_in_sentence(db, sentence_id), response_quality, t)

----------------------------------------------------------------------------
(* Selecting the next sentence *)

RECURSIVE SumCount(_, _)
SumCount(ws, ids) ==
    IF ids = {} THEN 0 ELSE ws[Least(ids)].count + SumCount(ws, ids \ {Least(ids)})

\* the groups of the join word_sentence x sentences x words by sentence_id
JoinedSentences(db) ==
    {sid \in 1..Len(db.sentences) : get_words_in_sentence(db, sid) # {}}

\* the first query's rows: HAVING words_that_are_new = 0
ReviewRows(db, end_of_day_time, now_time) ==
    LET row(sid) ==
            LET linked == get_words_in_sentence(db, sid)
            IN  [sentence_id |-> sid,
                 words_that_need_reviewing |->
                    Cardinality({w \in linked :
                        SumNeedsReviewing(db.words[w], end_of_day_time, now_time)}),
                 words_that_are_new |->
                    Cardinality({w \in linked : db.words[w].reviewed = FALSE})]
    IN  {r \in {row(sid) : sid \in JoinedSentences(db)} : r.words_that_are_new = 0}

\* mutant: the sentences with the fewest words to review come first
ReviewOrder_ascending(a, b) ==
    \/ a.words_that_need_reviewing < b.words_that_need_reviewing
    \/ /\ a.words_that_need_reviewing = b.words_that_need_reviewing
       /\ a.words_that_are_new < b.words_that_are_new

\* ORDER BY words_that_need_reviewing DESC, words_that_are_new ASC
ReviewOrder(a, b) ==
    \/ a.words_that_need_reviewing > b.words_that_need_reviewing
    \/ /\ a.words_that_need_reviewing = b.words_that_need_reviewing
       /\ a.words_that_are_new < b.words_that_are_new

\* the second query's rows: HAVING words_that_are_new > 0; the average is
\* kept as its sum, to be divided by words_that_are_new
NewRows(db) ==
    LET row(sid) ==
            LET fresh == {w \in get_words_in_sentence(db, sid) :
                              db.words[w].reviewed = FALSE}
            IN  [sentence_id |-> sid,
                 words_that_are_new |-> Cardinality(fresh),
                 new_word_count_sum |-> SumCount(db.words, fresh)]
    IN  {r \in {row(sid) : sid \in JoinedSentences(db)} : r.words_that_are_new > 0}

\* mutant: the least seen new words come first
NewOrder_least_seen(a, b) ==
    \/ a.words_that_are_new < b.words_that_are_new
    \/ /\ a.words_that_are_new = b.words_that_are_new
       /\ a.new_word_count_sum * b.words_that_are_new
             < b.new_word_count_sum * a.words_that_are_new

\* ORDER BY words_that_are_new ASC, average_new_word_count DESC
NewOrder(a, b) ==
    \/ a.words_that_are_new < b.words_that_are_new
    \/ /\ a.words_that_are_new = b.words_that_are_new
       /\ a.new_word_count_sum * b.words_that_are_new
             > b.new_word_count_sum * a.words_that_are_new

\* LIMIT 1 after ORDER BY .., random(): any row that no row precedes
FirstReviewRows(rows) == {r \in rows : \A o \in rows : ~ReviewOrder(o, r)}
FirstNewRows(rows) == {r \in rows : \A o \in rows : ~NewOrder(o, r)}

\* mutant: the words due in any sentence, not only in the chosen one
get_words_in_sentence_that_need_reviewing_anywhere(db, sentence_id, t) ==
    {<<w, db.words[w].text>> : w \in
        {w \in 1..Len(db.words) :
            NeedsReviewing(db.words[w], get_end_of_day_time(t), t)}}

get_words_in_sentence_that_need_reviewing(db, sentence_id, t) ==
    {<<w, db.words[w].text>> : w \in
        {w \in get_words_in_sentence(db, sentence_id) :
            NeedsReviewing(db.words[w], get_end_of_day_time(t), t)}}

get_words_in_sentence_that_are_new(db, sentence_id) ==
    {<<w, db.words[w].text>> : w \in
        {w \in get_words_in_sentence(db, sentence_id) : db.words[w].reviewed = FALSE}}

NothingText ==
    << "No sentence with any new words and no words are scheduled for reviewing." >>

IPlusOneSentenceData(db, sentence_id, t, query) ==
    [op |-> "get_next_sentence_i_plus_one", result |-> "Ok", query |-> query,
     sentence_id |-> sentence_id,
     sentence_text |-> db.sentences[sentence_id].text,
     sentence_source |-> db.sentences[sentence_id].source,
     words_being_reviewed |-> get_words_in_sentence_that_need_reviewing(db, sentence_id, t),
     words_that_are_new |-> get_words_in_sentence_that_are_new(db, sentence_id)]

NothingToReview ==
    [op |-> "get_next_sentence_i_plus_one", result |-> "Ok", query |-> 0,
     sentence_id |-> 0,
     sentence_text |-> NothingText,
     sentence_source |-> "",
     words_being_reviewed |-> {<<0, "">>},
     words_that_are_new |-> {<<0, "">>}]

\* mutant: RowNotFound of the second query is passed on as the error it is
get_next_sentence_i_plus_one_row_not_found(db, t) ==
    LET end_of_day_time == get_end_of_day_time(t)
        first == FirstReviewRows(ReviewRows(db, end_of_day_time, t))
        reviewing == {r \in first : r.words_that_need_reviewing > 0}
        second == FirstNewRows(NewRows(db))
    IN  IF reviewing # {}
        THEN {IPlusOneSentenceData(db, r.sentence_id, t, 1) : r \in reviewing}
        ELSE IF second # {}
        THEN {IPlusOneSentenceData(db, r.sentence_id, t, 2) : r \in second}
        ELSE {[op |-> "get_next_sentence_i_plus_one", result |-> "DatabaseError",
               query |-> 0, sentence_id |-> 0]}

\* mutant: the first query's row is returned whatever its count of words
\* that need reviewing
get_next_sentence_i_plus_one_any_first_row(db, t) ==
    LET end_of_day_time == get_end_of_day_time(t)
        first == FirstReviewRows(ReviewRows(db, end_of_day_time, t))
        second == FirstNewRows(NewRows(db))
    IN  IF first # {}
        THEN {IPlusOneSentenceData(db, r.sentence_id, t, 1) : r \in first}
        ELSE IF second # {}
        THEN {IPlusOneSentenceData(db, r.sentence_id, t, 2) : r \in second}
        ELSE {NothingToReview}

\* Every value get_next_sentence_i_plus_one can return with the clock
\* reading t throughout; query is 1 or 2 for the query whose row was
\* returned and 0 for the nothing-to-review value.
get_next_sentence_i_plus_one(db, t) ==
    LET end_of_day_time == get_end_of_day_time(t)
        first == FirstReviewRows(ReviewRows(db, end_of_day_time, t))
        reviewing == {r \in first : r.words_that_need_reviewing > 0}
        second == FirstNewRows(NewRows(db))
    IN  IF reviewing # {}
        THEN {IPlusOneSentenceData(db, r.sentence_id, t, 1) : r \in reviewing}
        ELSE IF second # {}
        THEN {IPlusOneSentenceData(db, r.sentence_id, t, 2) : r \in second}
        ELSE {NothingToReview}

----------------------------------------------------------------------------
(* Scheduler harness: super_memo_2 applied repeatedly from the new-item state *)

Idle == [pc |-> "idle"]

StoreIdle ==
    /\ words = << >>
    /\ sentences = << >>
    /\ word_sentence = {}
    /\ now = 0
    /\ req = [p \in Tasks |-> Idle]
    /\ ret = [op |-> "none"]

SMInit ==
    /\ sm = SuperMemoItemDefault
    /\ smPrev = SuperMemoItemDefault
    /\ smQ = -1
    /\ smN = 0
    /\ smGood = TRUE
    /\ StoreIdle

SMStep(q) ==
    /\ smN < MaxSteps
    /\ sm.duration <= MaxInterval
    /\ sm' = super_memo_2(sm, q)
    /\ smPrev' = sm
    /\ smQ' = q
    /\ smN' = smN + 1
    /\ smGood' = (smGood /\ q >= Q3)
    /\ UNCHANGED <<words, sentences, word_sentence, now, req, ret>>

SMNext == \E q \in Qualities : SMStep(q)

SpecSM == SMInit /\ [][SMNext]_vars

----------------------------------------------------------------------------
(* The store and its handlers, each run to its end at one clock reading *)

Db == [words |-> words, sentences |-> sentences, word_sentence |-> word_sentence]

SetDb(db) ==
    /\ words' = db.words
    /\ sentences' = db.sentences
    /\ word_sentence' = db.word_sentence

AllOk(n) == [i \in 1..n |-> "ok"]

\* n reviews of word id with quality 3.0, the first at t and each later one
\* at the first instant at which next_review_at has passed
RECURSIVE ReviewRun(_, _, _, _)
ReviewRun(ws, id, t, n) ==
    IF n = 0
    THEN [words |-> ws, now |-> t]
    ELSE LET reviewed == review_word(ws, id, Q3, t)
         IN  ReviewRun(reviewed, id, reviewed[id].next_review_at + 1, n - 1)

\* a store the program has been running on: "a." ingested at instant 0 and
\* its word "a" reviewed VeteranReviews times
Veteran ==
    LET db == add_text(EmptyDb, << "a", "." >>, "book", AllOk(1)).db
        run == ReviewRun(db.words, WordId(db.words, "a"), 0, VeteranReviews)
    IN  [db |-> [db EXCEPT !.words = run.words], now |-> run.now]

\* the first 02:30:00 after the veteran store's last review has come due
Start == (Veteran.now - (Veteran.now % Day)) + Day + 2 * Hour + 30 * Minute

ClockInstants == {Start + o : o \in ClockOffsets}

\* at most one sentence of a call meets a failure, of one of the given kinds
OneFailure(n, failures) ==
    {AllOk(n)} \cup
    {[i \in 1..n |-> IF i = k THEN o ELSE "ok"] : k \in 1..n, o \in failures}

Init ==
    /\ sm = SuperMemoItemDefault
    /\ smPrev = SuperMemoItemDefault
    /\ smQ = -1
    /\ smN = 0
    /\ smGood = TRUE
    /\ \E db \in {EmptyDb, Veteran.db} :
          /\ words = db.words
          /\ sentences = db.sentences
          /\ word_sentence = db.word_sentence
    /\ now = Start
    /\ req = [p \in Tasks |-> Idle]
    /\ ret = [op |-> "none"]

\* the clock moves on; what the last handler returned is then history
Tick(t) ==
    /\ t > now
    /\ now' = t
    /\ ret' = [op |-> "none"]
    /\ UNCHANGED <<smVars, dbVars, req>>

AddText(text, source, outcomes) ==
    LET r == add_text(Db, text, source, outcomes)
    IN  /\ SetDb(r.db)
        /\ ret' = r.ret
        /\ UNCHANGED <<smVars, now, req>>

Retokenize(outcomes) ==
    LET r == retokenize(Db, outcomes)
    IN  /\ SetDb(r.db)
        /\ ret' = r.ret
        /\ UNCHANGED <<smVars, now, req>>

\* what review_word returns and which of its two info! lines it logs
ReviewWordReturn(review_word_id, found) ==
    [op |-> "review_word", result |-> "Ok", review_word_id |-> review_word_id,
     log |-> IF found THEN "updated review data" ELSE "doesn't need reviewing"]

ReviewWord(review_word_id, response_quality) ==
    /\ words' = review_word(words, review_word_id, response_quality, now)
    /\ ret' = ReviewWordReturn(review_word_id,
                  ReviewSelect(words, review_word_id, get_end_of_day_time(now), now))
    /\ UNCHANGED <<smVars, sentences, word_sentence, now, req>>

ReviewSentence(sentence_id, response_quality) ==
    /\ words' = review_sentence(Db, sentence_id, response_quality, now)
    /\ ret' = [op |-> "review_sentence", result |-> "Ok"]
    /\ UNCHANGED <<smVars, sentences, word_sentence, now, req>>

GetReviewInfo ==
    /\ ret' = get_review_info(Db, now)
    /\ UNCHANGED <<smVars, dbVars, now, req>>

GetNextSentence ==
    /\ \E data \in get_next_sentence_i_plus_one(Db, now) : ret' = data
    /\ UNCHANGED <<smVars, dbVars, now, req>>

Next ==
    \/ \E t \in ClockInstants : Tick(t)
    \/ \E text \in Texts, source \in Sources :
          AddText(text, source, AllOk(Len(iterate_sentences(text))))
    \/ Retokenize(AllOk(Len(sentences)))
    \/ \E id \in 1..(Len(words) + 1), q \in ReviewQualities : ReviewWord(id, q)
    \/ \E sid \in 0..Len(sentences), q \in ReviewQualities : ReviewSentence(sid, q)
    \/ GetReviewInfo
    \/ GetNextSentence

Spec == Init /\ [][Next]_vars

----------------------------------------------------------------------------
(* review_word as the two statements it runs, for concurrent request tasks:  *)
(* the SELECT on the pool, then the UPDATE in the transaction begun after it *)

\* the SELECT of review_word in task p, with the locals it leaves behind
ReviewWordSelect(p, review_word_id, response_quality) ==
    /\ req[p].pc = "idle"
    /\ IF ReviewSelect(words, review_word_id, get_end_of_day_time(now), now)
       THEN /\ req' = [req EXCEPT ![p] =
                          [pc |-> "update",
                           review_word_id |-> review_word_id,
                           now_time |-> now,
                           row |-> words[review_word_id],
                           sm |-> super_memo_2(ReviewItem(words[review_word_id]),
                                               response_quality)]]
            /\ ret' = [op |-> "none"]
       ELSE /\ req' = req
            /\ ret' = ReviewWordReturn(review_word_id, FALSE)
    /\ UNCHANGED <<smVars, dbVars, now>>

\* the transaction of review_word in task p: begin, UPDATE, commit; the
\* clock is read again for next_review_at
ReviewWordUpdate(p) ==
    /\ req[p].pc = "update"
    /\ words' = ReviewUpdate(words, req[p].review_word_id, req[p].sm,
                             now + req[p].sm.duration, req[p].now_time)
    /\ req' = [req EXCEPT ![p] = Idle]
    /\ ret' = ReviewWordReturn(req[p].review_word_id, TRUE)
    /\ UNCHANGED <<smVars, sentences, word_sentence, now>>

ConcInit ==
    /\ sm = SuperMemoItemDefault
    /\ smPrev = SuperMemoItemDefault
    /\ smQ = -1
    /\ smN = 0
    /\ smGood = TRUE
    /\ words = Veteran.db.words
    /\ sentences = Veteran.db.sentences
    /\ word_sentence = Veteran.db.word_sentence
    /\ now = Start
    /\ req = [p \in Tasks |-> Idle]
    /\ ret = [op |-> "none"]

ConcNext ==
    \/ \E t \in ClockInstants : Tick(t)
    \/ \E p \in Tasks, id \in 1..(Len(words) + 1), q \in ReviewQualities :
          ReviewWordSelect(p, id, q)
    \/ \E p \in Tasks : ReviewWordUpdate(p)

SpecConc == ConcInit /\ [][ConcNext]_vars

----------------------------------------------------------------------------
(* Ingestion and retokenization with an analyzer and a store that can fail *)

\* a text whose second sentence repeats its first, besides the others
IngestTexts == Texts \cup { << "a", ".", "a", "." >> }

\* add_post: add_text and the response made of its result.  The request's
\* text, the outcomes it met and the number of sentence rows it found are
\* kept next to the response.
AddPost(text, source, outcomes) ==
    LET r == add_text(Db, text, source, outcomes)
    IN  /\ SetDb(r.db)
        /\ ret' = [op |-> "add_post", response |-> r.ret, text |-> text,
                   source |-> source, outcomes |-> outcomes,
                   sentences_before |-> Len(sentences)]
        /\ UNCHANGED <<smVars, now, req>>

\* retokenize at start-up (--retokenize); the outcomes it met and the number
\* of links it found are kept next to its result
RetokenizeRun(outcomes) ==
    LET r == retokenize(Db, outcomes)
    IN  /\ SetDb(r.db)
        /\ ret' = [op |-> "retokenize_run", response |-> r.ret, outcomes |-> outcomes,
                   links_before |-> Cardinality(word_sentence)]
        /\ UNCHANGED <<smVars, now, req>>

IngestNext ==
    \/ \E text \in IngestTexts, source \in Sources :
          \E outcomes \in OneFailure(Len(iterate_sentences(text)),
                                     (JumanppOutcomes \ {"ok"}) \cup StoreFailures) :
             AddPost(text, source, outcomes)
    \/ \E outcomes \in OneFailure(Len(sentences),
                                  (JumanppOutcomes \ {"ok"}) \cup {"upsert_failure"}) :
          RetokenizeRun(outcomes)

SpecIngest == Init /\ [][IngestNext]_vars

----------------------------------------------------------------------------
(* Concurrent add_text requests.  Each sentence has a transaction of its   *)
(* own, whose first statement is a write: sqlite admits one writer at a    *)
(* time, so the transactions of two tasks take effect one after the other, *)
(* in any order.                                                           *)

\* add_text in task p splits the text and enters its loop
AddTextSplit(p, text, source) ==
    /\ req[p].pc = "idle"
    /\ req' = [req EXCEPT ![p] =
                  [pc |-> "add_sentence", sentences |-> iterate_sentences(text),
                   source |-> source, next |-> 1]]
    /\ ret' = [op |-> "none"]
    /\ UNCHANGED <<smVars, dbVars, now>>

\* one turn of the loop in task p: add_sentence of the next sentence, and
\* the return of add_text after the last one
AddSentence(p) ==
    /\ req[p].pc = "add_sentence"
    /\ SetDb(add_sentence(Db, req[p].sentences[req[p].next], req[p].source, "ok"))
    /\ IF req[p].next < Len(req[p].sentences)
       THEN /\ req' = [req EXCEPT ![p].next = @ + 1]
            /\ ret' = [op |-> "none"]
       ELSE /\ req' = [req EXCEPT ![p] = Idle]
            /\ ret' = [op |-> "add_text", result |-> "Ok",
                       sentences_added |-> Len(req[p].sentences)]
    /\ UNCHANGED <<smVars, now>>

IngestConcNext ==
    \/ \E p \in Tasks, text \in IngestTexts, source \in Sources :
          AddTextSplit(p, text, source)
    \/ \E p \in Tasks : AddSentence(p)

SpecIngestConc == Init /\ [][IngestConcNext]_vars

----------------------------------------------------------------------------
(* iterate_sentences as the loop it runs, one character a step *)

\* the characters of the texts the splitter is run on, and their length
SplitChars == {"a", " ", ".", "\n", "[", "]"}
MaxLen == 4

RECURSIVE SeqsUpTo(_, _)
SeqsUpTo(S, n) ==
    IF n = 0
    THEN {<< >>}
    ELSE LET shorter == SeqsUpTo(S, n - 1)
         IN  shorter \cup {Append(t, c) : t \in shorter, c \in S}

\* the text of the nested-quote example: [a.b].c.
QuotedText == << "[", "a", ".", "b", "]", ".", "c", "." >>

SplitTexts == SeqsUpTo(SplitChars, MaxLen) \cup {QuotedText}

\* the call on one of the texts: depth 0, curr_string and sentences empty,
\* before the first character
SplitInit ==
    /\ sm = SuperMemoItemDefault
    /\ smPrev = SuperMemoItemDefault
    /\ smQ = -1
    /\ smN = 0
    /\ smGood = TRUE
    /\ words = << >>
    /\ sentences = << >>
    /\ word_sentence = {}
    /\ now = 0
    /\ \E text \in SplitTexts :
          req = [p \in Tasks |->
                    IF p = "t1"
                    THEN [pc |-> "iterate", text |-> text, i |-> 1, depth |-> 0,
                          curr_string |-> << >>, sentences |-> << >>]
                    ELSE Idle]
    /\ ret = [op |-> "none"]

\* mutant: a closing quote does not take the depth below 0
SplitChar_clamped(p) ==
    /\ req[p].pc = "iterate"
    /\ req[p].i <= Len(req[p].text)
    /\ LET c == req[p].text[req[p].i]
           pushed == Append(req[p].curr_string, c)
       IN  IF c \in open_quotes
           THEN req' = [req EXCEPT ![p].i = @ + 1, ![p].curr_string = pushed,
                                   ![p].depth = @ + 1]
           ELSE IF c \in close_quotes
           THEN req' = [req EXCEPT ![p].i = @ + 1, ![p].curr_string = pushed,
                                   ![p].depth = Max(@ - 1, 0)]
           ELSE IF req[p].depth = 0 /\ c \in terminators
           THEN req' = [req EXCEPT ![p].i = @ + 1, ![p].curr_string = << >>,
                                   ![p].sentences =
                                       IF trim(pushed) # << >>
                                       THEN Append(@, trim(pushed))
                                       ELSE @]
           ELSE req' = [req EXCEPT ![p].i = @ + 1, ![p].curr_string = pushed]
    /\ UNCHANGED <<smVars, dbVars, now, ret>>

\* one turn of the loop over text.chars()
SplitChar(p) ==
    /\ req[p].pc = "iterate"
    /\ req[p].i <= Len(req[p].text)
    /\ LET c == req[p].text[req[p].i]
           pushed == Append(req[p].curr_string, c)
       IN  IF c \in open_quotes
           THEN req' = [req EXCEPT ![p].i = @ + 1, ![p].curr_string = pushed,
                                   ![p].depth = @ + 1]
           ELSE IF c \in close_quotes
           THEN req' = [req EXCEPT ![p].i = @ + 1, ![p].curr_string = pushed,
                                   ![p].depth = @ - 1]
           ELSE IF req[p].depth = 0 /\ c \in terminators
           THEN req' = [req EXCEPT ![p].i = @ + 1, ![p].curr_string = << >>,
                                   ![p].sentences =
                                       IF trim(pushed) # << >>
                                       THEN Append(@, trim(pushed))
                                       ELSE @]
           ELSE req' = [req EXCEPT ![p].i = @ + 1, ![p].curr_string = pushed]
    /\ UNCHANGED <<smVars, dbVars, now, ret>>

\* the loop is over: sentences is returned
SplitReturn(p) ==
    /\ req[p].pc = "iterate"
    /\ req[p].i > Len(req[p].text)
    /\ req' = [req EXCEPT ![p] = Idle]
    /\ ret' = [op |-> "iterate_sentences", text |-> req[p].text,
               sentences |-> req[p].sentences]
    /\ UNCHANGED <<smVars, dbVars, now>>

SplitNext ==
    \/ SplitChar("t1")
    \/ SplitReturn("t1")

SpecSplit == SplitInit /\ [][SplitNext]_vars

----------------------------------------------------------------------------
(* get_end_of_day_time at the instants of two days *)

\* the local midnight before Start
Midnight == Start - (Start % Day)

\* the clock readings: every hour of two days, at some minutes and seconds
DayInstants ==
    {Midnight + h * Hour + m * Minute + s :
        h \in 0..47, m \in {0, 30, 59}, s \in {0, 1, 59}}

DayInit ==
    /\ sm = SuperMemoItemDefault
    /\ smPrev = SuperMemoItemDefault
    /\ smQ = -1
    /\ smN = 0
    /\ smGood = TRUE
    /\ words = << >>
    /\ sentences = << >>
    /\ word_sentence = {}
    /\ now = Midnight
    /\ req = [p \in Tasks |-> Idle]
    /\ ret = [op |-> "none"]

\* get_end_of_day_time reads the clock and returns the boundary; the
\* reading is kept next to the value returned
GetEndOfDayTime ==
    /\ ret' = [op |-> "get_end_of_day_time", now_time |-> now,
               end_of_day_time |-> get_end_of_day_time(now)]
    /\ UNCHANGED <<smVars, dbVars, now, req>>

DayNext ==
    \/ \E t \in DayInstants : Tick(t)
    \/ GetEndOfDayTime

SpecDay == DayInit /\ [][DayNext]_vars

----------------------------------------------------------------------------
(* The corpus at one clock reading: ingestion, retokenization and the       *)
(* reviews of whole sentences, with an analyzer and a store that work       *)

CorpusNext ==
    \/ \E text \in IngestTexts, source \in Sources :
          AddText(text, source, AllOk(Len(iterate_sentences(text))))
    \/ Retokenize(AllOk(Len(sentences)))
    \/ \E sid \in 0..Len(sentences), q \in Qualities : ReviewSentence(sid, q)

SpecCorpus == Init /\ [][CorpusNext]_vars

----------------------------------------------------------------------------
(* The review loop of a client at one clock reading: review_get shows the   *)
(* next sentence, review_post reviews it, until nothing is left to review   *)

\* the store after the texts of a sequence have been ingested one by one
RECURSIVE AddTexts(_, _)
AddTexts(db, texts) ==
    IF texts = << >>
    THEN db
    ELSE AddTexts(add_text(db, Head(texts), "book",
                           AllOk(Len(iterate_sentences(Head(texts))))).db,
                  Tail(texts))

\* the texts of the corpus: those of the ingestion and one whose second
\* sentence adds a word to its first
LoopTexts == IngestTexts \cup { << "c", ".", "c", "d", "." >> }

\* the sequences of distinct texts
TextOrders ==
    {o \in SeqsUpTo(LoopTexts, Cardinality(LoopTexts)) :
        \A i \in 1..Len(o), j \in 1..Len(o) : o[i] = o[j] => i = j}

\* the stores the loop is run on
Corpora == {AddTexts(db, texts) : db \in {EmptyDb, Veteran.db}, texts \in TextOrders}

LoopInit ==
    /\ sm = SuperMemoItemDefault
    /\ smPrev = SuperMemoItemDefault
    /\ smQ = -1
    /\ smN = 0
    /\ smGood = TRUE
    /\ \E db \in Corpora :
          /\ words = db.words
          /\ sentences = db.sentences
          /\ word_sentence = db.word_sentence
    /\ now = Start
    /\ req = [p \in Tasks |->
                 IF p = "t1" THEN [pc |-> "review_get", iterations |-> 0] ELSE Idle]
    /\ ret = [op |-> "none"]

\* review_get: the page shows the sentence get_next_sentence_i_plus_one
\* returned; on the nothing-to-review value the client stops
ReviewGet(p) ==
    /\ req[p].pc = "review_get"
    /\ \E data \in get_next_sentence_i_plus_one(Db, now) :
          /\ ret' = data
          /\ req' = [req EXCEPT ![p] =
                        IF data.sentence_id = 0
                        THEN [pc |-> "done", iterations |-> req[p].iterations]
                        ELSE [pc |-> "review_post", iterations |-> req[p].iterations,
                              review_sentence_id |-> data.sentence_id]]
    /\ UNCHANGED <<smVars, dbVars, now>>

\* review_post: review_sentence on the sentence shown, with the quality the
\* client sends
ReviewPost(p, response_quality) ==
    /\ req[p].pc = "review_post"
    /\ words' = review_sentence(Db, req[p].review_sentence_id, response_quality, now)
    /\ ret' = [op |-> "review_sentence", result |-> "Ok"]
    /\ req' = [req EXCEPT ![p] =
                  [pc |-> "review_get", iterations |-> req[p].iterations + 1]]
    /\ UNCHANGED <<smVars, sentences, word_sentence, now>>

LoopNext ==
    \/ ReviewGet("t1")
    \/ \E q \in Qualities : ReviewPost("t1", q)

\* the client keeps going: a request that can be made is made
SpecLoop == LoopInit /\ [][LoopNext]_vars /\ WF_vars(LoopNext)

----------------------------------------------------------------------------
(* Claims about the scheduler step, checked under SpecSM *)

\* prev * e - next * EUnit, the part of the exact product prev x e_factor
\* (e in ten-thousandths) that next, in whole seconds, leaves out
ProductRest(prev, e, next) ==
    ((prev % EUnit) * e) - (next - (prev \div EUnit) * e) * EUnit

\* 1 day x e_factor, in whole seconds rounded down and rounded up
\* (Day / EUnit = 216 / 25)
DayTimesFloor(e) == ((Day \div 400) * e) \div (EUnit \div 400)
DayTimesCeil(e) == ((Day \div 400) * e + (EUnit \div 400) - 1) \div (EUnit \div 400)

\* C1: a lapse (quality < 3.0) applied to a state with repetition >= 2 gives
\* repetition 1, interval 10 minutes and the input's e_factor, unchanged.
C1_Lapse ==
    (smQ >= 0 /\ smQ < Q3 /\ smPrev.repitition >= 2) =>
        /\ sm.repitition = 1
        /\ sm.duration = 10 * Minute
        /\ sm.e_factor = smPrev.e_factor

\* a lapse of an item whose e_factor the earlier reviews have moved
C1_Witness ==
    /\ smQ >= 0 /\ smQ < Q3
    /\ smPrev.repitition >= 3
    /\ smPrev.e_factor # EDefault
    /\ sm.repitition = 1

\* C2 as stated: with every quality in [3.0, 5.0], the intervals from the
\* new-item state are 10 minutes, 1 day, and then each the previous interval
\* multiplied by the new e_factor (hence >= 1 day x e_factor); repetition
\* strictly increases and e_factor >= 1.3 at every step.
C2_AsStated ==
    (smGood /\ smN >= 1) =>
        /\ smN = 1 => sm.duration = 10 * Minute
        /\ smN = 2 => sm.duration = Day
        /\ smN >= 3 =>
              /\ ProductRest(smPrev.duration, sm.e_factor, sm.duration) = 0
              /\ sm.duration >= DayTimesCeil(sm.e_factor)
        /\ sm.repitition > smPrev.repitition
        /\ sm.e_factor >= EFloor

\* C2, amended: as C2_AsStated, but each later interval is the previous
\* interval multiplied by the new e_factor and truncated to whole seconds
\* (hence more than 1 day x e_factor - 1 second).
C2_TransitionTable ==
    (smGood /\ smN >= 1) =>
        /\ smN = 1 => sm.duration = 10 * Minute
        /\ smN = 2 => sm.duration = Day
        /\ smN >= 3 =>
              /\ ProductRest(smPrev.duration, sm.e_factor, sm.duration) >= 0
              /\ ProductRest(smPrev.duration, sm.e_factor, sm.duration) < EUnit
              /\ sm.duration >= DayTimesFloor(sm.e_factor)
        /\ sm.repitition > smPrev.repitition
        /\ sm.e_factor >= EFloor

\* a step with quality >= 3.0 throughout whose product has a fractional part
\* and whose e_factor was raised to the floor
C2_Witness ==
    /\ smGood /\ smN >= 3
    /\ ProductRest(smPrev.duration, sm.e_factor, sm.duration) > 0
    /\ smPrev.e_factor + EFactorDelta(smQ) < EFloor
    /\ sm.e_factor = EFloor

----------------------------------------------------------------------------
(* Claims about the store, checked under Spec *)

\* the due predicate of a word at clock reading t, the boundary being the
\* end of the day of t
Due(w, t) ==
    \/ /\ w.reviewed
       /\ w.next_review_at # NULL
       /\ w.next_review_at < get_end_of_day_time(t)
       /\ w.review_duration >= Day
    \/ /\ w.next_review_at # NULL
       /\ w.next_review_at < t

WordIds == 1..Len(words)

\* the word id a step's review_word was called with, if the step is one
CalledWith ==
    IF ret'.op = "review_word" THEN {ret'.review_word_id} ELSE {}

\* C3: in every reachable store state every Word has e_factor >= 1.3.
C3_EFactorFloor == \A i \in WordIds : words[i].e_factor >= EFloor

\* a word whose last review would have taken its e_factor below 1.3
C3_Witness ==
    \E i \in WordIds :
        /\ words[i].repitition > VeteranReviews
        /\ words[i].e_factor = EFloor
        /\ ret.op \in {"review_word", "review_sentence"}

\* C4 as stated: next_review_at of a reviewed word never decreases.
C4_AsStated ==
    [][\A i \in WordIds :
          words[i].reviewed => words'[i].next_review_at >= words[i].next_review_at]_vars

\* C4, amended: a review_word that finds a previously reviewed word does not
\* decrease its next_review_at when the quality is >= 3.0 or when
\* next_review_at has already passed (next_review_at < now).  (A lapse of a
\* word reviewed early inside the day window sets next_review_at to now + 10
\* minutes, which can be earlier.)
C4_NextReviewMonotone ==
    [][\A id \in WordIds \cap CalledWith, q \in ReviewQualities :
          ( /\ ReviewWord(id, q)
            /\ words[id].reviewed
            /\ (q >= Q3 \/ words[id].next_review_at < now) )
          => words'[id].next_review_at >= words[id].next_review_at]_vars

\* a word reviewed for the third time inside the day window, before its
\* next_review_at: only a quality >= 3.0 takes a word to repetition 3
C4_Witness ==
    /\ ret.op = "review_word"
    /\ ret.log = "updated review data"
    /\ ret.review_word_id \in WordIds
    /\ words[ret.review_word_id].repitition = 3
    /\ now < Start + Day

\* C5: review_word on a word that is neither due nor never-reviewed returns
\* success and changes no Word, Sentence or Link.
C5_NotEligibleNoOp ==
    [][\A id \in WordIds \cap CalledWith, q \in ReviewQualities :
          ( /\ ReviewWord(id, q)
            /\ words[id].reviewed
            /\ ~Due(words[id], now) )
          => /\ UNCHANGED dbVars
             /\ ret'.result = "Ok"]_vars

\* review_word has just found a reviewed word not to need reviewing
C5_Witness ==
    /\ ret.op = "review_word"
    /\ ret.log = "doesn't need reviewing"
    /\ ret.review_word_id \in WordIds
    /\ words[ret.review_word_id].reviewed
    /\ ~Due(words[ret.review_word_id], now)

----------------------------------------------------------------------------
(* Claims about concurrent reviews, checked under SpecConc *)

\* C7 as stated: review_word's read of the word and its update are one
\* transaction, so while a task is between the two the stored row is the row
\* it read: no other operation's write to the word has taken effect.
C7_OneTransaction ==
    \A p \in Tasks :
        req[p].pc = "update" => words[req[p].review_word_id] = req[p].row

----------------------------------------------------------------------------
(* Claims about the queries, checked under Spec *)

SentenceIds == 1..Len(sentences)

LinkedWords(sid) == {w \in WordIds : <<w, sid>> \in word_sentence}

\* the new words and the due words of a sentence
NewWords(sid) == {w \in LinkedWords(sid) : ~words[w].reviewed}
DueWords(sid) == {w \in LinkedWords(sid) : Due(words[w], now)}

\* the sum of occurrence_count over the new words of a sentence
RECURSIVE OccurrenceSum(_)
OccurrenceSum(S) ==
    IF S = {}
    THEN 0
    ELSE LET w == CHOOSE x \in S : TRUE
         IN  words[w].count + OccurrenceSum(S \ {w})

ZeroNewSentences == {sid \in SentenceIds : NewWords(sid) = {}}

\* a reviewed word with the given interval, next due at instant t
ExampleWord(interval, t) ==
    [text |-> "a", count |-> 1, frequency |-> 1, reviewed |-> TRUE,
     repitition |-> 3, e_factor |-> EDefault, review_duration |-> interval,
     next_review_at |-> t, date_first_reviewed |-> 0]

\* a store whose only word is w
ExampleDb(w) == [words |-> << w >>, sentences |-> << >>, word_sentence |-> {}]

\* 03:30 of the day after instant 0, and 23:00 the evening before it
HalfPastThree == Day + 3 * Hour + 30 * Minute
ElevenPM == 23 * Hour

\* C8: get_review_info returns exactly the number of words that are due at
\* the current now and boundary, and changes no state; a reviewed word with
\* interval 2 days and next_review_at 03:30 is counted at 23:00 the evening
\* before, and one with interval 5 minutes and the same next_review_at is
\* counted only once now is later than next_review_at.
C8_ReviewCount ==
    [][ret'.op = "get_review_info" =>
          /\ ret'.result = "Ok"
          /\ ret'.reviews_remaining = Cardinality({i \in WordIds : Due(words[i], now)})
          /\ UNCHANGED <<dbVars, now>>
          /\ get_review_info(ExampleDb(ExampleWord(2 * Day, HalfPastThree)),
                             ElevenPM).reviews_remaining = 1
          /\ \A t \in {ElevenPM, HalfPastThree - 1, HalfPastThree} :
                get_review_info(ExampleDb(ExampleWord(5 * Minute, HalfPastThree)),
                                t).reviews_remaining = 0
          /\ get_review_info(ExampleDb(ExampleWord(5 * Minute, HalfPastThree)),
                             HalfPastThree + 1).reviews_remaining = 1]_vars

\* a count that takes in a word of the day window whose next_review_at is
\* still ahead, and leaves out a reviewed word with a short interval whose
\* next_review_at is ahead too
C8_Witness ==
    /\ ret.op = "get_review_info"
    /\ ret.reviews_remaining >= 1
    /\ \E i \in WordIds :
          /\ words[i].next_review_at > now
          /\ Due(words[i], now)
    /\ \E j \in WordIds :
          /\ words[j].reviewed
          /\ words[j].review_duration < Day
          /\ words[j].next_review_at < get_end_of_day_time(now)
          /\ ~Due(words[j], now)

\* C9: when some sentence with zero new words has a due word, the sentence
\* returned has zero new words and the most due words of all sentences with
\* zero new words; when none has, the first query returns nothing and the
\* result is the second query's (query 0: that one found no row either).
C9_PhaseOne ==
    ret.op = "get_next_sentence_i_plus_one" =>
        IF \E sid \in ZeroNewSentences : DueWords(sid) # {}
        THEN /\ ret.query = 1
             /\ ret.sentence_id \in ZeroNewSentences
             /\ \A sid \in ZeroNewSentences :
                   Cardinality(DueWords(ret.sentence_id)) >= Cardinality(DueWords(sid))
        ELSE ret.query \in {0, 2}

\* the first query's sentence returned ahead of a zero-new-word sentence
\* that has fewer due words, but has some
C9_Witness ==
    /\ ret.op = "get_next_sentence_i_plus_one"
    /\ ret.query = 1
    /\ \E sid \in ZeroNewSentences :
          /\ DueWords(sid) # {}
          /\ Cardinality(DueWords(sid)) < Cardinality(DueWords(ret.sentence_id))

\* C10: in a corpus (of at least one sentence) where every sentence has a new
\* word, the result is never the first query's: it is a sentence with the
\* least new words of all sentences and, among those with that many, one whose
\* new words have the greatest average occurrence_count.
C10_PhaseTwo ==
    ( /\ ret.op = "get_next_sentence_i_plus_one"
      /\ SentenceIds # {}
      /\ \A sid \in SentenceIds : NewWords(sid) # {} )
    => /\ ret.query = 2
       /\ ret.sentence_id \in SentenceIds
       /\ \A sid \in SentenceIds :
             Cardinality(NewWords(ret.sentence_id)) <= Cardinality(NewWords(sid))
       /\ \A sid \in SentenceIds :
             Cardinality(NewWords(sid)) = Cardinality(NewWords(ret.sentence_id))
             => OccurrenceSum(NewWords(ret.sentence_id)) * Cardinality(NewWords(sid))
                   >= OccurrenceSum(NewWords(sid)) * Cardinality(NewWords(ret.sentence_id))

\* every sentence has a new word; the one returned has fewer than another
\* and, at as many as a third, a greater average occurrence_count
C10_Witness ==
    /\ ret.op = "get_next_sentence_i_plus_one"
    /\ ret.query = 2
    /\ \A sid \in SentenceIds : NewWords(sid) # {}
    /\ \E sid \in SentenceIds :
          Cardinality(NewWords(sid)) > Cardinality(NewWords(ret.sentence_id))
    /\ \E sid \in SentenceIds :
          /\ Cardinality(NewWords(sid)) = Cardinality(NewWords(ret.sentence_id))
          /\ OccurrenceSum(NewWords(sid)) < OccurrenceSum(NewWords(ret.sentence_id))

\* C11 as stated: when no sentence has a new word and no sentence with zero
\* new words has a due word, the result is a success carrying sentence id 0,
\* the fixed text, an empty source, and a due list and a new list that are
\* both empty.
C11_EmptySentinel ==
    ( /\ ret.op = "get_next_sentence_i_plus_one"
      /\ \A sid \in SentenceIds : NewWords(sid) = {}
      /\ \A sid \in ZeroNewSentences : DueWords(sid) = {} )
    => /\ ret.result = "Ok"
       /\ ret.sentence_id = 0
       /\ ret.sentence_text = NothingText
       /\ ret.sentence_source = ""
       /\ Cardinality(ret.words_being_reviewed) = 0
       /\ Cardinality(ret.words_that_are_new) = 0

\* C12: with no sentence and no word stored, get_next_sentence_i_plus_one
\* returns the nothing-to-review value, whose sentence_id is 0, and
\* get_review_info returns 0 reviews remaining.
C12_EmptyCorpus ==
    (sentences = << >> /\ words = << >>) =>
        /\ ret.op = "get_next_sentence_i_plus_one" =>
              /\ ret.result = "Ok"
              /\ ret.query = 0
              /\ ret.sentence_id = 0
              /\ ret.sentence_text = NothingText
        /\ ret.op = "get_review_info" =>
              /\ ret.result = "Ok"
              /\ ret.reviews_remaining = 0

\* the selection has just answered on the empty store
C12_Witness ==
    /\ sentences = << >>
    /\ words = << >>
    /\ word_sentence = {}
    /\ ret.op = "get_next_sentence_i_plus_one"
    /\ ret.sentence_id = 0

----------------------------------------------------------------------------
(* Claims about ingestion and retokenization, checked under SpecIngest *)

\* the store after the step
DbAfter == [words |-> words', sentences |-> sentences', word_sentence |-> word_sentence']

\* the sentences of the text a request carried, and the one that met a failure
SplitOf(r) == iterate_sentences(r.text)
FailedAt(r, failures) == {i \in 1..Len(r.outcomes) : r.outcomes[i] \in failures}

\* the store add_text leaves when it goes through the first n sentences of
\* a request's text with nothing failing
AfterFirst(db, r, n) ==
    AddSentencesFrom(db, SubSeq(SplitOf(r), 1, n), r.source, AllOk(n), 1).db

\* the words the analyzer finds in a stored sentence
SentenceTokens(sid) == tokenize_sentence_jumanpp(sentences[sid].text, "ok")

\* how often a word text occurs in the stored sentences
Occurrences(text) ==
    Cardinality({p \in UNION {{<<sid, j>> : j \in 1..Len(SentenceTokens(sid))} :
                                 sid \in SentenceIds} :
                    SentenceTokens(p[1])[p[2]] = text})

\* C14: an add_text of a text all of whose sentences are stored already
\* changes no Word, Sentence or Link; and after a successful add_text(T, S)
\* in which the store did not fail, a second add_text(T, S) leaves rows and
\* occurrence counts as the first left them, however the analyzer and the
\* store behave in it.
C14_IdempotentIngestion ==
    [][ret'.op = "add_post" =>
          /\ (\A i \in 1..Len(SplitOf(ret')) : HasSentence(sentences, SplitOf(ret')[i]))
                => UNCHANGED dbVars
          /\ (ret'.response.result = "Ok" /\ FailedAt(ret', StoreFailures) = {})
                => \A again \in OneFailure(Len(SplitOf(ret')),
                                           (JumanppOutcomes \ {"ok"}) \cup StoreFailures) :
                      add_text(DbAfter, ret'.text, ret'.source, again).db = DbAfter]_vars

\* a text of two sentences ingested again: no row was added
C14_Witness ==
    /\ ret.op = "add_post"
    /\ ret.response.result = "Ok"
    /\ ret.outcomes = AllOk(Len(SplitOf(ret)))
    /\ Len(SplitOf(ret)) >= 2
    /\ ret.sentences_before = Len(sentences)
    /\ \A i \in 1..Len(SplitOf(ret)) : HasSentence(sentences, SplitOf(ret)[i])
    /\ \E w \in WordIds : words[w].count >= 2

\* C15 as stated: a successful add_text returns the number of Sentence rows
\* the call created; sentences that were stored already, or that repeat
\* earlier in the text, are not counted.
C15_CountsCreated ==
    (ret.op = "add_post" /\ ret.response.result = "Ok") =>
        ret.response.sentences_added = Len(sentences) - ret.sentences_before

\* C16 as stated: when the analyzer exits with a non-zero status on a
\* sentence, add_text yields TokenizeError and leaves committed what the
\* sentences before it gave, and nothing of that sentence.
C16_TokenizeError ==
    [][(ret'.op = "add_post" /\ FailedAt(ret', {"exit_failure"}) # {}) =>
          LET i == CHOOSE k \in FailedAt(ret', {"exit_failure"}) : TRUE
          IN  /\ ret'.response.result = "TokenizeError"
              /\ DbAfter = AfterFirst(Db, ret', i - 1)]_vars

\* C17 as stated: when the INSERT of a sentence fails with an error other
\* than the conflict on its text, add_text returns a StoreError and leaves
\* committed what the sentences before it gave, and nothing of that sentence.
C17_StoreError ==
    [][(ret'.op = "add_post" /\ FailedAt(ret', {"insert_failure"}) # {}) =>
          LET i == CHOOSE k \in FailedAt(ret', {"insert_failure"}) : TRUE
          IN  /\ ret'.response.result = "DatabaseError"
              /\ DbAfter = AfterFirst(Db, ret', i - 1)]_vars

\* C18: a retokenize in which nothing fails succeeds, leaves the Sentence
\* rows and, in every Word that existed, everything but the count as they
\* were, and leaves as links exactly the pairs of a stored sentence and a
\* word the analyzer finds in it, and as every count the number of
\* occurrences of the word in the stored sentences.
C18_RetokenizeFrame ==
    [][(ret'.op = "retokenize_run" /\ ret'.outcomes = AllOk(Len(sentences))) =>
          /\ ret'.response.result = "Ok"
          /\ sentences' = sentences
          /\ Len(words') >= Len(words)
          /\ \A w \in WordIds :
                words'[w] = [words[w] EXCEPT !.count = Occurrences(words[w].text)]
          /\ \A w \in 1..Len(words') : words'[w].count = Occurrences(words'[w].text)
          /\ word_sentence' =
                {p \in (1..Len(words')) \X SentenceIds :
                    \E j \in 1..Len(SentenceTokens(p[2])) :
                        SentenceTokens(p[2])[j] = words'[p[1]].text}]_vars

\* a retokenize that gave a sentence its links back, in a store that holds
\* a word with a review history
C18_Witness ==
    /\ ret.op = "retokenize_run"
    /\ ret.response.result = "Ok"
    /\ ret.outcomes = AllOk(Len(sentences))
    /\ ret.links_before < Cardinality(word_sentence)
    /\ Len(sentences) >= 2
    /\ \E w \in WordIds : words[w].reviewed /\ words[w].repitition >= VeteranReviews

\* C19 as stated: when tokenizing a stored sentence or upserting its words
\* fails, retokenize returns an error and leaves links and counts as they
\* were before the call.
C19_RetokenizeRollback ==
    [][(ret'.op = "retokenize_run"
          /\ FailedAt(ret', {"exit_failure", "upsert_failure"}) # {}) =>
          /\ ret'.response.result # "Ok"
          /\ UNCHANGED dbVars]_vars

----------------------------------------------------------------------------
(* Claims about concurrent ingestion, checked under SpecIngestConc *)

\* C20: however the sentences of concurrent add_text calls interleave, no
\* two Words have the same text and a Word's count is the number of
\* occurrences processed for it, and no two Sentences have the same text and
\* each one's words were processed once: the counts and links are those of
\* the stored sentences, each taken once.
C20_ConcurrentIngestion ==
    /\ \A v \in WordIds, w \in WordIds : words[v].text = words[w].text => v = w
    /\ \A a \in SentenceIds, b \in SentenceIds :
          sentences[a].text = sentences[b].text => a = b
    /\ \A w \in WordIds : words[w].count = Occurrences(words[w].text)
    /\ word_sentence =
          {p \in WordIds \X SentenceIds :
              \E j \in 1..Len(SentenceTokens(p[2])) :
                  SentenceTokens(p[2])[j] = words[p[1]].text}

\* two tasks going through different texts that begin with the same
\* sentence, both past it, in a store that was empty: the sentence is
\* stored once
C20_Witness ==
    \E p \in Tasks, q \in Tasks :
        /\ p # q
        /\ req[p].pc = "add_sentence" /\ req[p].next >= 2
        /\ req[q].pc = "add_sentence" /\ req[q].next >= 2
        /\ req[p].sentences[1] = req[q].sentences[1]
        /\ req[p].sentences # req[q].sentences
        /\ Len(sentences) = 1
        /\ \A w \in WordIds : ~words[w].reviewed

----------------------------------------------------------------------------
(* Claims about the sentence splitter, checked under SpecSplit *)

\* the nesting depth after the first n characters: +1 for each opening
\* quote, -1 for each closing quote
DepthAt(text, n) ==
    Cardinality({j \in 1..n : text[j] \in open_quotes})
        - Cardinality({j \in 1..n : text[j] \in close_quotes})

\* the terminators among the first n characters at which the depth is 0
CutsIn(text, n) == {k \in 1..n : text[k] \in terminators /\ DepthAt(text, k) = 0}

\* the end of the span before position k: the last cut before k, or 0
SpanStart(text, k) ==
    LET before == {c \in CutsIn(text, k - 1) : TRUE}
    IN  IF before = {} THEN 0 ELSE CHOOSE c \in before : \A d \in before : d <= c

\* the span accumulated when the cut at k is met, trimmed
SpanAt(text, k) == trim(SubSeq(text, SpanStart(text, k) + 1, k))

\* the sentences the first n characters give: the non-empty trimmed spans
\* of the cuts, in the order of the cuts
EmittedIn(text, n) ==
    LET good == {k \in CutsIn(text, n) : SpanAt(text, k) # << >>}
    IN  [m \in 1..Cardinality(good) |->
            SpanAt(text, CHOOSE k \in good : Cardinality({d \in good : d <= k}) = m)]

\* C21: after any number of characters the depth is the number of openers
\* minus the number of closers read (not clamped), the sentences emitted are
\* exactly the non-empty trimmed spans that end at a terminator read at depth
\* 0, in input order, and the accumulator holds what follows the last such
\* terminator; the returned list is that of the whole text; and [a.b].c.
\* splits into exactly [a.b]. and c.
C21_SplitAtDepthZero ==
    /\ \A p \in Tasks :
          req[p].pc = "iterate" =>
              LET text == req[p].text
                  n == req[p].i - 1
              IN  /\ req[p].depth = DepthAt(text, n)
                  /\ req[p].sentences = EmittedIn(text, n)
                  /\ req[p].curr_string = SubSeq(text, SpanStart(text, n + 1) + 1, n)
    /\ ret.op = "iterate_sentences" =>
          /\ ret.sentences = EmittedIn(ret.text, Len(ret.text))
          /\ ret.sentences = iterate_sentences(ret.text)
          /\ \A m \in 1..Len(ret.sentences) :
                ret.sentences[m] # << >> /\ ret.sentences[m] = trim(ret.sentences[m])
    /\ iterate_sentences(QuotedText) =
          << << "[", "a", ".", "b", "]", "." >>, << "c", "." >> >>

\* the split of [a.b].c. has returned its two sentences
C21_Witness ==
    /\ ret.op = "iterate_sentences"
    /\ ret.text = QuotedText
    /\ ret.sentences = << << "[", "a", ".", "b", "]", "." >>, << "c", "." >> >>

\* a terminator was read at a depth below 0 and gave no sentence
C21_NegativeDepth ==
    \E p \in Tasks :
        /\ req[p].pc = "iterate"
        /\ req[p].i > 2
        /\ req[p].depth < 0
        /\ req[p].text[req[p].i - 1] \in terminators
        /\ req[p].sentences = << >>

----------------------------------------------------------------------------
(* Claims about the day boundary, checked under SpecDay *)

\* the first instant after t that is 04:00:00 of a day
NextFourAM(t) ==
    LET today == t - (t % Day) + day_end_hour * Hour
    IN  IF today > t THEN today ELSE today + Day

\* C22 as stated: for every instant now the day boundary is the next
\* 04:00:00 local time strictly after now, hence strictly after now and at
\* most 24 hours after it.
C22_NextFourAM ==
    ret.op = "get_end_of_day_time" =>
        /\ ret.end_of_day_time = NextFourAM(ret.now_time)
        /\ ret.end_of_day_time > ret.now_time
        /\ ret.end_of_day_time <= ret.now_time + Day

----------------------------------------------------------------------------
(* Claims about what a presented sentence reviews, checked under Spec *)

\* C23 as stated: whenever get_review_info counts at least one due word and
\* get_next_sentence_i_plus_one, at the same now, returns a sentence, the
\* sentence contains at least one due word.
C23_AsStated ==
    ( /\ ret.op = "get_next_sentence_i_plus_one"
      /\ ret.sentence_id # 0
      /\ get_review_info(Db, now).reviews_remaining > 0 )
    => DueWords(ret.sentence_id) # {}

\* C23, amended: whenever a due word is linked to a sentence that has no new
\* word, the sentence returned at the same now has no new word and at least
\* one due word (and the review count is greater than 0); a sentence
\* returned without a due word has a new word.  (When every sentence of a
\* due word also has a new word, the sentence returned is the second query's
\* and need not contain a due word.)
C23_ReviewsDueWords ==
    ret.op = "get_next_sentence_i_plus_one" =>
        /\ (\E sid \in ZeroNewSentences : DueWords(sid) # {}) =>
              /\ ret.sentence_id \in SentenceIds
              /\ DueWords(ret.sentence_id) # {}
              /\ NewWords(ret.sentence_id) = {}
              /\ get_review_info(Db, now).reviews_remaining > 0
        /\ (ret.sentence_id # 0 /\ DueWords(ret.sentence_id) = {}) =>
              NewWords(ret.sentence_id) # {}

\* a sentence with due words and no new word was returned, while another
\* sentence holds a due word next to a new one
C23_Witness ==
    /\ ret.op = "get_next_sentence_i_plus_one"
    /\ ret.sentence_id \in SentenceIds
    /\ DueWords(ret.sentence_id) # {}
    /\ NewWords(ret.sentence_id) = {}
    /\ \E sid \in SentenceIds : DueWords(sid) # {} /\ NewWords(sid) # {}

----------------------------------------------------------------------------
(* Claims about repeated reviews, checked under Spec *)

\* C24: right after an eligible review_word(w, q) at time now, w is reviewed
\* and not due at that now and boundary: next_review_at is now plus the new
\* interval, the new interval is at least 10 minutes, and now + 1 day is not
\* before the boundary; so a second review_word(w, q2) at the same now, with
\* any quality, leaves the store as the first left it.
C24_ReviewIdempotent ==
    [][\A id \in WordIds \cap CalledWith, q \in ReviewQualities :
          ( /\ ReviewWord(id, q)
            /\ (Due(words[id], now) \/ ~words[id].reviewed) )
          => /\ words'[id].reviewed
             /\ ~Due(words'[id], now)
             /\ words'[id].next_review_at = now + words'[id].review_duration
             /\ words'[id].review_duration >= 10 * Minute
             /\ now + Day >= get_end_of_day_time(now)
             /\ \A q2 \in Qualities :
                   review_word(words', id, q2, now) = words']_vars

\* a second review_word found nothing to do on a word reviewed at this very
\* instant, whose new interval of 1 day puts next_review_at on the boundary
C24_Witness ==
    /\ ret.op = "review_word"
    /\ ret.log = "doesn't need reviewing"
    /\ ret.review_word_id \in WordIds
    /\ words[ret.review_word_id].review_duration = Day
    /\ words[ret.review_word_id].next_review_at = now + Day
    /\ get_end_of_day_time(now) = now + Day

----------------------------------------------------------------------------
(* Claims about the stored review state, checked under Spec *)

\* C25: every Word with reviewed = true has repetition >= 1, with interval
\* 600 s at repetition 1, 86400 s at repetition 2 and at least 86400 s at
\* repetition 3 or more; every Word with reviewed = false has repetition 0,
\* interval 0 and e_factor 2.5.
C25_RepetitionInterval ==
    \A i \in WordIds :
        IF words[i].reviewed
        THEN /\ words[i].repitition >= 1
             /\ words[i].repitition = 1 => words[i].review_duration = 600
             /\ words[i].repitition = 2 => words[i].review_duration = 86400
             /\ words[i].repitition >= 3 => words[i].review_duration >= 86400
        ELSE /\ words[i].repitition = 0
             /\ words[i].review_duration = 0
             /\ words[i].e_factor = 25000

\* a store holding a word that lapsed after a long history, a word at its
\* second repetition and a word never reviewed
C25_Witness ==
    /\ \E i \in WordIds :
          /\ words[i].reviewed
          /\ words[i].repitition = 1
          /\ words[i].date_first_reviewed = 0
    /\ \E i \in WordIds : words[i].reviewed /\ words[i].repitition = 2
    /\ \E i \in WordIds : ~words[i].reviewed
    /\ ret.op \in {"review_word", "review_sentence"}

----------------------------------------------------------------------------
(* Claims about counts and links, checked under SpecCorpus *)

\* the sentences a word is linked to
LinkedSentences(w) == {sid \in SentenceIds : <<w, sid>> \in word_sentence}

\* C26: with an analyzer that gives every sentence the same tokens each
\* time, after any sequence of add_text and retokenize calls that went
\* through (and of reviews), every Word's count is the number of occurrences
\* of its text among the tokens of all stored sentences and the links are
\* exactly the pairs of a word and a sentence it is a token of; hence a
\* retokenize leaves words, sentences and links as they were.
C26_CountsAndLinks ==
    /\ \A w \in WordIds : words[w].count = Occurrences(words[w].text)
    /\ \A w \in WordIds, sid \in SentenceIds :
          <<w, sid>> \in word_sentence
              <=> \E j \in 1..Len(SentenceTokens(sid)) :
                     SentenceTokens(sid)[j] = words[w].text
    /\ word_sentence \subseteq WordIds \X SentenceIds
    /\ retokenize(Db, AllOk(Len(sentences))).db = Db

\* a retokenize has run on a store of three sentences in which a word
\* occurs twice in a sentence, so more often than it has links
C26_Witness ==
    /\ ret.op = "retokenize"
    /\ ret.result = "Ok"
    /\ Len(sentences) >= 3
    /\ \E w \in WordIds : words[w].count > Cardinality(LinkedSentences(w))

----------------------------------------------------------------------------
(* Claims about the review of a sentence, checked under SpecCorpus *)

\* the row an eligible word has after one scheduler step with quality q at
\* clock reading t
StepOnce(w, q, t) ==
    LET state == IF w.reviewed
                 THEN SuperMemoItem(w.repitition, w.review_duration, w.e_factor)
                 ELSE SuperMemoItem(0, 0, EDefault)
        step == super_memo_2(state, q)
    IN  [w EXCEPT !.repitition = step.repitition,
                  !.e_factor = step.e_factor,
                  !.review_duration = step.duration,
                  !.next_review_at = t + step.duration,
                  !.reviewed = TRUE,
                  !.date_first_reviewed = IF @ = NULL THEN t ELSE @]

\* C27: review_sentence(s, q) applies the scheduler step with quality q
\* exactly once to every word linked to s that is due or never reviewed,
\* leaves the linked words that are neither, and every word not linked to s,
\* unchanged, changes no Sentence and no Link, and at the fixed now lowers the
\* number of due words by exactly the number of due words linked to s.
C27_ReviewSentenceFrame ==
    [][ret'.op = "review_sentence" =>
          \A sid \in 0..Len(sentences), q \in Qualities :
              ReviewSentence(sid, q) =>
                  /\ Len(words') = Len(words)
                  /\ \A w \in WordIds :
                        words'[w] =
                            IF w \in LinkedWords(sid)
                               /\ (Due(words[w], now) \/ ~words[w].reviewed)
                            THEN StepOnce(words[w], q, now)
                            ELSE words[w]
                  /\ sentences' = sentences
                  /\ word_sentence' = word_sentence
                  /\ Cardinality({w \in WordIds : Due(words'[w], now)}) =
                        Cardinality({w \in WordIds : Due(words[w], now)})
                            - Cardinality(DueWords(sid))]_vars

\* a sentence has been reviewed whose words were, one of them due after a
\* long history and one never reviewed, while a word outside it is still new
C27_Witness ==
    /\ ret.op = "review_sentence"
    /\ \E sid \in SentenceIds :
          /\ \A w \in LinkedWords(sid) :
                /\ words[w].reviewed
                /\ words[w].next_review_at = now + words[w].review_duration
          /\ \E w \in LinkedWords(sid) :
                words[w].date_first_reviewed = 0 /\ words[w].repitition > VeteranReviews
          /\ \E w \in LinkedWords(sid) : words[w].date_first_reviewed = now
          /\ \E w \in WordIds \ LinkedWords(sid) : ~words[w].reviewed

----------------------------------------------------------------------------
(* Claims about the review loop, checked under SpecLoop *)

\* the words that are due or new and linked to some sentence
OpenWords ==
    {w \in WordIds :
        /\ \E sid \in SentenceIds : <<w, sid>> \in word_sentence
        /\ (Due(words[w], now) \/ ~words[w].reviewed)}

\* C28: at a fixed now and with no ingestion, every sentence the selection
\* returns has a word that is due or new, every review_sentence of the
\* sentence returned, with any quality, strictly decreases the number of
\* words that are due or new and linked to a sentence, and the loop of
\* selecting and reviewing reaches the nothing-to-review value.
C28_LoopProgress ==
    /\ [][/\ (ret'.op = "get_next_sentence_i_plus_one" /\ ret'.sentence_id # 0)
                => \E w \in LinkedWords(ret'.sentence_id) : w \in OpenWords
          /\ ret'.op = "review_sentence"
                => Cardinality(OpenWords') < Cardinality(OpenWords)]_vars
    /\ <>(/\ req["t1"].pc = "done"
          /\ ret = NothingToReview
          /\ OpenWords = {})

\* the loop has ended after three sentences, the first with a due word
C28_Witness ==
    /\ req["t1"].pc = "done"
    /\ req["t1"].iterations >= 3
    /\ ret = NothingToReview
    /\ \E w \in WordIds : words[w].date_first_reviewed = 0

====
